---- MODULE Spec2Model ----
(***************************************************************************)
(* Model of core/hle/service/nwm/uds_data.cpp: the UDS frame codec (LLC,   *)
(* SecureData and EAPoL Start/Logoff frames) and the CCMP encrypt/decrypt  *)
(* pipeline.  The codec is stateless; the state of the model is the frame  *)
(* last produced (sent, wire), the result of the last parser or decryptor  *)
(* applied to it (recv) and what the CCM engine was handed (engine).       *)
(***************************************************************************)
EXTENDS Integers, Sequences, FiniteSets, TLC

VARIABLES sent, wire, recv, engine

vars == <<sent, wire, recv, engine>>

(***************************************************************************)
(* Bounds of the model.                                                    *)
(***************************************************************************)
MaxDataLen == 2

MaxNodeListLen == 2

MaxCipherLen == 1

(***************************************************************************)
(* Fixed-width integers.                                                   *)
(***************************************************************************)
U16Mod == 2 ^ 16

U16Max == U16Mod - 1

U8Mod == 2 ^ 8

ToU16(x) == x % U16Mod

HiByte(x) == (x \div U8Mod) % U8Mod

LoByte(x) == x % U8Mod

\* u16_be: a 16-bit value stored most significant byte first.
U16BE(x) == <<HiByte(x), LoByte(x)>>

ReadU16BE(b, off) == b[off + 1] * U8Mod + b[off + 2]

Bytes(b, off, n) == SubSeq(b, off + 1, off + n)

RECURSIVE Concat(_)
Concat(ss) == IF ss = <<>> THEN <<>> ELSE Head(ss) \o Concat(Tail(ss))

RECURSIVE SeqsUpTo(_, _)
SeqsUpTo(S, n) ==
    IF n = 0 THEN {<<>>}
    ELSE LET shorter == SeqsUpTo(S, n - 1)
         IN  shorter \cup {Append(s, x) : s \in {t \in shorter : Len(t) = n - 1}, x \in S}

Zeros(n) == [i \in 1..n |-> 0]

(***************************************************************************)
(* Wire layouts (uds_data.h, not part of the sources at hand).             *)
(***************************************************************************)
EtherTypeSecureData == 34669

EtherTypeEAPoL == 34958

EAPoLStartMagic == 513

EAPoLLogoffMagic == 514

UDSMaxNodes == 16

UsernameLen == 10

\* dsap, ssap, control, OUI (3 bytes), protocol (u16_be)
LLCHeaderSize == 8

\* u16_be protocol_size, securedata_size; u8 is_management, data_channel;
\* u16_be sequence_number, dest_node_id, src_node_id
SecureDataHeaderSize == 12

\* u64_be friend_code_seed; u16_be username[UsernameLen]; u16_be network_node_id
EAPoLNodeInfoSize == 8 + 2 * UsernameLen + 2

\* u16_be magic; u16_be association_id; EAPoLNodeInfo node
EAPoLStartPacketSize == 4 + EAPoLNodeInfoSize

\* u16_be magic; u16_be assigned_node_id; u8 connected_nodes; u8 max_nodes;
\* EAPoLNodeInfo nodes[UDSMaxNodes]
EAPoLLogoffPacketSize == 6 + UDSMaxNodes * EAPoLNodeInfoSize

SerializeLLCHeader(h) == <<170, 170, 3, 0, 0, 0>> \o U16BE(h.protocol)

DeserializeLLCHeader(b) == [protocol |-> ReadU16BE(b, 6)]

SerializeSecureDataHeader(h) ==
    U16BE(h.protocol_size) \o U16BE(h.securedata_size)
        \o <<h.is_management, h.data_channel>>
        \o U16BE(h.sequence_number) \o U16BE(h.dest_node_id) \o U16BE(h.src_node_id)

DeserializeSecureDataHeader(b) ==
    [protocol_size   |-> ReadU16BE(b, 0),
     securedata_size |-> ReadU16BE(b, 2),
     is_management   |-> b[5],
     data_channel    |-> b[6],
     sequence_number |-> ReadU16BE(b, 6),
     dest_node_id    |-> ReadU16BE(b, 8),
     src_node_id     |-> ReadU16BE(b, 10)]

\* A u64 is kept as its four 16-bit limbs, most significant first.
U64BE(limbs) == Concat([i \in 1..4 |-> U16BE(limbs[i])])

ReadU64BE(b, off) == [i \in 1..4 |-> ReadU16BE(b, off + 2 * (i - 1))]

SerializeEAPoLNodeInfo(n) ==
    U64BE(n.friend_code_seed)
        \o Concat([i \in 1..UsernameLen |-> U16BE(n.username[i])])
        \o U16BE(n.network_node_id)

DeserializeEAPoLNodeInfo(b) ==
    [friend_code_seed |-> ReadU64BE(b, 0),
     username         |-> [i \in 1..UsernameLen |-> ReadU16BE(b, 8 + 2 * (i - 1))],
     network_node_id  |-> ReadU16BE(b, 8 + 2 * UsernameLen)]

ZeroEAPoLNodeInfo ==
    [friend_code_seed |-> Zeros(4), username |-> Zeros(UsernameLen), network_node_id |-> 0]

SerializeEAPoLStartPacket(p) ==
    U16BE(p.magic) \o U16BE(p.association_id) \o SerializeEAPoLNodeInfo(p.node)

DeserializeEAPoLStartPacket(b) ==
    [magic          |-> ReadU16BE(b, 0),
     association_id |-> ReadU16BE(b, 2),
     node           |-> DeserializeEAPoLNodeInfo(Bytes(b, 4, EAPoLNodeInfoSize))]

SerializeEAPoLLogoffPacket(p) ==
    U16BE(p.magic) \o U16BE(p.assigned_node_id) \o <<p.connected_nodes, p.max_nodes>>
        \o Concat([i \in 1..UDSMaxNodes |-> SerializeEAPoLNodeInfo(p.nodes[i])])

DeserializeEAPoLLogoffPacket(b) ==
    [magic            |-> ReadU16BE(b, 0),
     assigned_node_id |-> ReadU16BE(b, 2),
     connected_nodes  |-> b[5],
     max_nodes        |-> b[6],
     nodes            |-> [i \in 1..UDSMaxNodes |->
                             DeserializeEAPoLNodeInfo(
                                 Bytes(b, 6 + (i - 1) * EAPoLNodeInfoSize, EAPoLNodeInfoSize))]]

(***************************************************************************)
(* Reading sizeof(T) bytes at an offset of a frame whose length nobody     *)
(* checked.  A read inside the frame gives its bytes; a read past its end  *)
(* is undefined: the process may fault, or the copy goes through and the   *)
(* missing bytes are whatever lies behind the buffer.                      *)
(***************************************************************************)
GarbageBytes == {0, 255}

MemcpyFromFrame(frame, off, n) ==
    IF Len(frame) >= off + n
    THEN {[kind |-> "ok", bytes |-> Bytes(frame, off, n)]}
    ELSE {[kind |-> "crash", bytes |-> <<>>]}
         \cup {[kind  |-> "overread",
                bytes |-> [i \in 1..n |-> IF off + i <= Len(frame) THEN frame[off + i] ELSE g]]
               : g \in GarbageBytes}

(***************************************************************************)
(* Frame generators.                                                       *)
(***************************************************************************)
GenerateLLCHeader(protocol) == SerializeLLCHeader([protocol |-> protocol])

\* Mutant: securedata_size counts the whole header (the "- 4" is forgotten).
GenerateSecureDataHeader_WholeSize(data_size, channel, dest_node_id, src_node_id, sequence_number) ==
    SerializeSecureDataHeader(
        [protocol_size   |-> ToU16(data_size + SecureDataHeaderSize),
         securedata_size |-> ToU16(data_size + SecureDataHeaderSize),
         is_management   |-> 0,
         data_channel    |-> channel,
         sequence_number |-> sequence_number,
         dest_node_id    |-> dest_node_id,
         src_node_id     |-> src_node_id])

GenerateSecureDataHeader(data_size, channel, dest_node_id, src_node_id, sequence_number) ==
    SerializeSecureDataHeader(
        [protocol_size   |-> ToU16(data_size + SecureDataHeaderSize),
         securedata_size |-> ToU16(data_size + SecureDataHeaderSize - 4),
         is_management   |-> 0,
         data_channel    |-> channel,
         sequence_number |-> sequence_number,
         dest_node_id    |-> dest_node_id,
         src_node_id     |-> src_node_id])

GenerateDataPayload(data, channel, dest_node, src_node, sequence_number) ==
    GenerateLLCHeader(EtherTypeSecureData)
        \o GenerateSecureDataHeader(ToU16(Len(data)), channel, dest_node, src_node,
                                    sequence_number)
        \o data

GenerateEAPoLStartFrame(association_id, node_info) ==
    GenerateLLCHeader(EtherTypeEAPoL)
        \o SerializeEAPoLStartPacket(
               [magic          |-> EAPoLStartMagic,
                association_id |-> association_id,
                node           |-> [friend_code_seed |-> node_info.friend_code_seed,
                                    username         |-> node_info.username,
                                    network_node_id  |-> 0]])

\* What nodes[index] yields for an index past the end of the list.
GarbageNodeInfo(g) ==
    [friend_code_seed |-> [i \in 1..4 |-> g * 257],
     username         |-> [i \in 1..UsernameLen |-> g * 257],
     network_node_id  |-> g * 257]

\* The loop runs index = 0 .. max_nodes - 1 and checks neither the length of
\* the list nor the capacity of the packet's array.
LogoffPacket(network_node_id, nodes, max_nodes, total_nodes, g) ==
    [magic            |-> EAPoLLogoffMagic,
     assigned_node_id |-> network_node_id,
     connected_nodes  |-> total_nodes,
     max_nodes        |-> max_nodes,
     nodes            |-> [i \in 1..UDSMaxNodes |->
                             IF i > max_nodes THEN ZeroEAPoLNodeInfo
                             ELSE IF i <= Len(nodes) THEN nodes[i]
                             ELSE GarbageNodeInfo(g)]]

LogoffIndicesInBounds(nodes, max_nodes) ==
    max_nodes <= Len(nodes) /\ max_nodes <= UDSMaxNodes

GenerateEAPoLLogoffFrame(mac_address, network_node_id, nodes, max_nodes, total_nodes) ==
    IF LogoffIndicesInBounds(nodes, max_nodes)
    THEN {[kind  |-> "ok",
           frame |-> GenerateLLCHeader(EtherTypeEAPoL)
                        \o SerializeEAPoLLogoffPacket(
                               LogoffPacket(network_node_id, nodes, max_nodes, total_nodes, 0))]}
    ELSE {[kind |-> "crash", frame |-> <<>>]}
         \cup {[kind  |-> "ub",
                frame |-> GenerateLLCHeader(EtherTypeEAPoL)
                             \o SerializeEAPoLLogoffPacket(
                                    LogoffPacket(network_node_id, nodes, max_nodes,
                                                 total_nodes, g))]
               : g \in GarbageBytes}

(***************************************************************************)
(* Frame parsers: each gives the set of results the call can have.         *)
(***************************************************************************)
\* value is <<v>> when the call returned v, and <<>> when it returned nothing.
NoValue == <<>>

ParseResult(r, value) ==
    [outcome |-> r.kind, value |-> IF r.kind = "crash" THEN NoValue ELSE <<value>>]

ParseSecureDataHeader(data) ==
    {ParseResult(r, IF r.kind = "crash" THEN NoValue ELSE DeserializeSecureDataHeader(r.bytes))
        : r \in MemcpyFromFrame(data, LLCHeaderSize, SecureDataHeaderSize)}

GetFrameEtherType(frame) ==
    {ParseResult(r, IF r.kind = "crash" THEN NoValue ELSE DeserializeLLCHeader(r.bytes).protocol)
        : r \in MemcpyFromFrame(frame, 0, LLCHeaderSize)}

GetEAPoLFrameType(frame) ==
    {ParseResult(r, IF r.kind = "crash" THEN NoValue ELSE ReadU16BE(r.bytes, 0))
        : r \in MemcpyFromFrame(frame, LLCHeaderSize, 2)}

DeserializeNodeInfoFromFrame(frame) ==
    {ParseResult(r, IF r.kind = "crash" THEN NoValue
                    ELSE LET eapol_start == DeserializeEAPoLStartPacket(r.bytes)
                         IN  [friend_code_seed |-> eapol_start.node.friend_code_seed,
                              username         |-> eapol_start.node.username,
                              network_node_id  |-> 0])
        : r \in MemcpyFromFrame(frame, LLCHeaderSize, EAPoLStartPacketSize)}

ParseEAPoLLogoffFrame(frame) ==
    {ParseResult(r, IF r.kind = "crash" THEN NoValue ELSE DeserializeEAPoLLogoffPacket(r.bytes))
        : r \in MemcpyFromFrame(frame, LLCHeaderSize, EAPoLLogoffPacketSize)}

(***************************************************************************)
(* Inputs of the codec.                                                    *)
(***************************************************************************)
PayloadBytes == {0, 171}

\* i % 256 for the long payloads that surround the range of the size field
PatternPayload(n) == [i \in 1..n |-> i % U8Mod]

LongLens ==
    {U16Max - SecureDataHeaderSize, U16Max - SecureDataHeaderSize + 1, U16Max, U16Max + 1}

Payloads == SeqsUpTo(PayloadBytes, MaxDataLen) \cup {PatternPayload(n) : n \in LongLens}

Channels == {1, 255}

NodeIds == {1, 4660}

SequenceNumbers == {0, 255, 256, 65535}

AssociationIds == {1, 258}

NodeInfos ==
    {[friend_code_seed |-> <<0, 0, 0, 1>>,
      username         |-> [i \in 1..UsernameLen |-> IF i = 1 THEN 65 ELSE 0],
      network_node_id  |-> 1],
     [friend_code_seed |-> <<258, 772, 1286, 1800>>,
      username         |-> [i \in 1..UsernameLen |-> 12354 + i],
      network_node_id  |-> 258]}

FullNodeList(n) == [i \in 1..n |-> CHOOSE x \in NodeInfos : x.network_node_id = 1]

NodeLists ==
    SeqsUpTo(NodeInfos, MaxNodeListLen)
        \cup {FullNodeList(UDSMaxNodes), FullNodeList(UDSMaxNodes + 1)}

MaxNodesValues == 0..(MaxNodeListLen + 1) \cup {UDSMaxNodes, UDSMaxNodes + 1}

TotalNodesValues == 0..MaxNodeListLen

MacAddresses ==
    {<<0, 0, 0, 0, 0, 0>>, <<1, 2, 3, 4, 5, 6>>, <<64, 210, 26, 0, 0, 1>>,
     <<255, 255, 255, 255, 255, 255>>}

NoCall == [fn |-> "none", outcome |-> "none"]

NoResult == [fn |-> "none", outcome |-> "none", value |-> NoValue]

NoEngine == [called |-> FALSE]

Init ==
    /\ sent = NoCall
    /\ wire = <<>>
    /\ recv = NoResult
    /\ engine = NoEngine

(***************************************************************************)
(* The codec's operations.  Every call is a transform of its own, with no  *)
(* state kept between calls, so a behaviour is one frame's life: a         *)
(* generator puts the frame on the wire, the transport may cut it short,   *)
(* and one parser is applied to what the wire holds (the empty frame when  *)
(* nothing was generated).                                                 *)
(***************************************************************************)
Idle == sent = NoCall /\ wire = <<>> /\ recv = NoResult

DoGenerateDataPayload ==
    Idle /\ \E data \in Payloads, channel \in Channels, dest_node \in NodeIds, src_node \in NodeIds,
       sequence_number \in SequenceNumbers :
        /\ sent' = [fn |-> "GenerateDataPayload", outcome |-> "ok", data |-> data,
                    channel |-> channel, dest_node |-> dest_node, src_node |-> src_node,
                    sequence_number |-> sequence_number]
        /\ wire' = GenerateDataPayload(data, channel, dest_node, src_node, sequence_number)
        /\ recv' = NoResult
        /\ UNCHANGED engine

DoGenerateEAPoLStartFrame ==
    Idle /\ \E association_id \in AssociationIds, node_info \in NodeInfos :
        /\ sent' = [fn |-> "GenerateEAPoLStartFrame", outcome |-> "ok",
                    association_id |-> association_id, node_info |-> node_info]
        /\ wire' = GenerateEAPoLStartFrame(association_id, node_info)
        /\ recv' = NoResult
        /\ UNCHANGED engine

DoGenerateEAPoLLogoffFrame ==
    Idle /\ \E mac_address \in MacAddresses, network_node_id \in NodeIds, nodes \in NodeLists,
       max_nodes \in MaxNodesValues, total_nodes \in TotalNodesValues :
        \E r \in GenerateEAPoLLogoffFrame(mac_address, network_node_id, nodes, max_nodes,
                                          total_nodes) :
            /\ sent' = [fn |-> "GenerateEAPoLLogoffFrame", outcome |-> r.kind,
                        network_node_id |-> network_node_id, nodes |-> nodes,
                        max_nodes |-> max_nodes, total_nodes |-> total_nodes]
            /\ wire' = r.frame
            /\ recv' = NoResult
            /\ UNCHANGED engine

\* The transport hands over only the first n bytes of the frame.
Truncate ==
    \E n \in 0..(LLCHeaderSize + SecureDataHeaderSize) :
        /\ recv = NoResult
        /\ sent.outcome \in {"ok", "ub"}
        /\ n < Len(wire)
        /\ sent' = [fn |-> "Truncate", outcome |-> "ok"]
        /\ wire' = SubSeq(wire, 1, n)
        /\ recv' = NoResult
        /\ UNCHANGED engine

Parsed(fn, results) ==
    \E r \in results :
        /\ recv = NoResult
        /\ sent.outcome # "crash"
        /\ recv' = [fn |-> fn, outcome |-> r.outcome, value |-> r.value]
        /\ UNCHANGED <<sent, wire, engine>>

DoParseSecureDataHeader == Parsed("ParseSecureDataHeader", ParseSecureDataHeader(wire))

DoGetFrameEtherType == Parsed("GetFrameEtherType", GetFrameEtherType(wire))

DoGetEAPoLFrameType == Parsed("GetEAPoLFrameType", GetEAPoLFrameType(wire))

DoDeserializeNodeInfoFromFrame ==
    Parsed("DeserializeNodeInfoFromFrame", DeserializeNodeInfoFromFrame(wire))

DoParseEAPoLLogoffFrame == Parsed("ParseEAPoLLogoffFrame", ParseEAPoLLogoffFrame(wire))

Next ==
    \/ DoGenerateDataPayload
    \/ DoGenerateEAPoLStartFrame
    \/ DoGenerateEAPoLLogoffFrame
    \/ Truncate
    \/ DoParseSecureDataHeader
    \/ DoGetFrameEtherType
    \/ DoGetEAPoLFrameType
    \/ DoDeserializeNodeInfoFromFrame
    \/ DoParseEAPoLLogoffFrame

Spec == Init /\ [][Next]_vars

(***************************************************************************)
(* The CCM engine (CryptoPP::CCM<AES, 8>), an external collaborator.  It   *)
(* is modelled by its contract: a keystream and an 8-byte tag that depend  *)
(* on key, nonce, AAD and message, a message-length limit that follows     *)
(* from the nonce length (L = 15 - nonce length bytes hold the length),    *)
(* and an exception when the lengths are refused or the tag does not       *)
(* verify.                                                                 *)
(***************************************************************************)
CCMTagSize == 8

CCMMaxMessageLength(nonce_len) == 2 ^ (8 * (15 - nonce_len)) - 1

RECURSIVE CCMMixFrom(_, _, _)
CCMMixFrom(bytes, i, acc) ==
    IF i > Len(bytes) THEN acc ELSE CCMMixFrom(bytes, i + 1, (acc * 31 + bytes[i] + 1) % 251)

CCMMix(bytes) == CCMMixFrom(bytes, 1, 7)

CCMKeystream(key, nonce, len) ==
    LET k == CCMMix(key) * 3 + CCMMix(nonce) * 5
    IN  [i \in 1..len |-> (k + i * 29) % U8Mod]

CCMTag(key, nonce, aad, plaintext) ==
    LET k == CCMMix(key)
        n == CCMMix(nonce)
        a == CCMMix(aad)
        p == CCMMix(plaintext) + Len(plaintext)
    IN  [j \in 1..CCMTagSize |-> (k * j + n * (j + 1) + a * (2 * j + 1) + p * (3 * j + 2)) % U8Mod]

\* A size_t is kept as its two's-complement reading: e >= 0 stands for e and
\* e < 0 for 2^64 + e, so that a wrapped difference stays representable.
SizeTSub(a, b) == a - b

SizeTExceeds(e, limit) == e < 0 \/ e > limit

\* SpecifyDataLengths refuses a message longer than the nonce length allows.
CCMSpecifyDataLengthsThrows(nonce, message_length) ==
    SizeTExceeds(message_length, CCMMaxMessageLength(Len(nonce)))

CCMEncrypt(key, nonce, aad, plaintext) ==
    LET ks == CCMKeystream(key, nonce, Len(plaintext))
    IN  [i \in 1..Len(plaintext) |-> (plaintext[i] + ks[i]) % U8Mod]
            \o CCMTag(key, nonce, aad, plaintext)

CCMDecryptBody(key, nonce, ciphertext) ==
    LET ks == CCMKeystream(key, nonce, Len(ciphertext))
    IN  [i \in 1..Len(ciphertext) |-> (ciphertext[i] + U8Mod - ks[i]) % U8Mod]

CCMVerifies(key, nonce, aad, ciphertext, tag) ==
    CCMTag(key, nonce, aad, CCMDecryptBody(key, nonce, ciphertext)) = tag

(***************************************************************************)
(* AAD, nonce, and the encrypt/decrypt pipeline.                           *)
(***************************************************************************)
RECURSIVE BitAnd(_, _, _)
BitAnd(a, b, bits) ==
    IF bits = 0 THEN 0
    ELSE (a % 2) * (b % 2) + 2 * BitAnd(a \div 2, b \div 2, bits - 1)

AADFrameControlMask == 36807

ZeroMac == <<0, 0, 0, 0, 0, 0>>

\* The AAD bytes for the given masked frame control, address choice per mode
\* and assertion: the three mutants below differ from the code in one of them.
AADBytes(FC, A1, A2, A3) == U16BE(FC) \o A1 \o A2 \o A3 \o U16BE(0)

\* Mutant: the from-DS branch takes A2 and A3 the wrong way round.
GenerateCCMPAAD_FromDsSwapped(sender, receiver, bssid, frame_control) ==
    LET FC      == BitAnd(frame_control, AADFrameControlMask, 16)
        to_ds   == BitAnd(frame_control, 1, 16) # 0
        from_ds == BitAnd(frame_control, 2, 16) # 0
    IN  IF to_ds = from_ds THEN [kind |-> "abort", aad |-> <<>>]
        ELSE IF to_ds THEN [kind |-> "ok", aad |-> AADBytes(FC, bssid, sender, receiver)]
        ELSE [kind |-> "ok", aad |-> AADBytes(FC, receiver, sender, bssid)]

\* Mutant: the frame control goes into the AAD unmasked.
GenerateCCMPAAD_Unmasked(sender, receiver, bssid, frame_control) ==
    LET to_ds   == BitAnd(frame_control, 1, 16) # 0
        from_ds == BitAnd(frame_control, 2, 16) # 0
    IN  IF to_ds = from_ds THEN [kind |-> "abort", aad |-> <<>>]
        ELSE IF to_ds
        THEN [kind |-> "ok", aad |-> AADBytes(frame_control, bssid, sender, receiver)]
        ELSE [kind |-> "ok", aad |-> AADBytes(frame_control, receiver, bssid, sender)]

\* Mutant: the assertion is compiled out; both ifs run as written.
GenerateCCMPAAD_NoAssert(sender, receiver, bssid, frame_control) ==
    LET FC      == BitAnd(frame_control, AADFrameControlMask, 16)
        to_ds   == BitAnd(frame_control, 1, 16) # 0
        from_ds == BitAnd(frame_control, 2, 16) # 0
    IN  IF to_ds THEN [kind |-> "ok", aad |-> AADBytes(FC, bssid, sender, receiver)]
        ELSE IF from_ds THEN [kind |-> "ok", aad |-> AADBytes(FC, receiver, bssid, sender)]
        ELSE [kind |-> "ok", aad |-> AADBytes(FC, ZeroMac, ZeroMac, ZeroMac)]

\* ASSERT_MSG(to_ds != from_ds) ends the process; otherwise the 22 bytes of
\* aad_struct: FC, A1, A2, A3, SC.
GenerateCCMPAAD(sender, receiver, bssid, frame_control) ==
    LET FC      == BitAnd(frame_control, AADFrameControlMask, 16)
        SC      == 0
        to_ds   == BitAnd(frame_control, 1, 16) # 0
        from_ds == BitAnd(frame_control, 2, 16) # 0
        afterFrom == IF from_ds
                     THEN [A1 |-> receiver, A2 |-> bssid, A3 |-> sender]
                     ELSE [A1 |-> ZeroMac, A2 |-> ZeroMac, A3 |-> ZeroMac]
        afterTo == IF to_ds
                   THEN [A1 |-> bssid, A2 |-> sender, A3 |-> receiver]
                   ELSE afterFrom
    IN  IF to_ds = from_ds
        THEN [kind |-> "abort", aad |-> <<>>]
        ELSE [kind |-> "ok",
              aad  |-> U16BE(FC) \o afterTo.A1 \o afterTo.A2 \o afterTo.A3 \o U16BE(SC)]

\* Mutant: the packet number holds the sequence number low byte first.
DecryptNonce_LittleEndian(sender, sequence_number) ==
    <<0>> \o sender
          \o <<0, 0, 0, 0, BitAnd(sequence_number, 255, 8),
               BitAnd(sequence_number \div U8Mod, 255, 8)>>

\* Mutant: the high byte of the sequence number is dropped.
EncryptNonce_LowByteOnly(sender, sequence_number) ==
    <<0>> \o sender \o <<0, 0, 0, 0, 0, BitAnd(sequence_number, 255, 8)>>

DecryptNonce(sender, sequence_number) ==
    <<0>> \o sender
          \o <<0, 0, 0, 0, BitAnd(sequence_number \div U8Mod, 255, 8),
               BitAnd(sequence_number, 255, 8)>>

EncryptNonce(sender, sequence_number) ==
    <<0>> \o sender
          \o <<0, 0, 0, 0, BitAnd(sequence_number \div U8Mod, 255, 8),
               BitAnd(sequence_number, 255, 8)>>

\* The length DecryptDataFrame hands to SpecifyDataLengths: size() - 8 in size_t.
DecryptMessageLength(encrypted_payload) == SizeTSub(Len(encrypted_payload), CCMTagSize)

EngineCall(key, nonce, aad, message_length) ==
    [called |-> TRUE, key |-> key, nonce |-> nonce, aad |-> aad,
     message_length |-> message_length]

\* kind: "abort" (the assertion), "ok" (a result was returned), "failed" (the
\* engine threw, the error was logged and {} returned).
DecryptDataFrame(encrypted_payload, ccmp_key, sender, receiver, bssid, sequence_number, frame_control) ==
    LET a     == GenerateCCMPAAD(sender, receiver, bssid, frame_control)
        nonce == DecryptNonce(sender, sequence_number)
        mlen  == DecryptMessageLength(encrypted_payload)
        n     == Len(encrypted_payload)
    IN  IF a.kind = "abort"
        THEN [kind |-> "abort", value |-> NoValue, logged |-> FALSE, engine |-> NoEngine]
        ELSE IF CCMSpecifyDataLengthsThrows(nonce, mlen)
        THEN [kind |-> "failed", value |-> <<<<>>>>, logged |-> TRUE,
              engine |-> EngineCall(ccmp_key, nonce, a.aad, mlen)]
        ELSE IF ~CCMVerifies(ccmp_key, nonce, a.aad, SubSeq(encrypted_payload, 1, n - CCMTagSize),
                             SubSeq(encrypted_payload, n - CCMTagSize + 1, n))
        THEN [kind |-> "failed", value |-> <<<<>>>>, logged |-> TRUE,
              engine |-> EngineCall(ccmp_key, nonce, a.aad, mlen)]
        ELSE [kind |-> "ok",
              value |-> <<CCMDecryptBody(ccmp_key, nonce,
                                         SubSeq(encrypted_payload, 1, n - CCMTagSize))>>,
              logged |-> FALSE,
              engine |-> EngineCall(ccmp_key, nonce, a.aad, mlen)]

EncryptDataFrame(payload, ccmp_key, sender, receiver, bssid, sequence_number, frame_control) ==
    LET a     == GenerateCCMPAAD(sender, receiver, bssid, frame_control)
        nonce == EncryptNonce(sender, sequence_number)
    IN  IF a.kind = "abort"
        THEN [kind |-> "abort", value |-> NoValue, logged |-> FALSE, engine |-> NoEngine]
        ELSE IF CCMSpecifyDataLengthsThrows(nonce, Len(payload))
        THEN [kind |-> "failed", value |-> <<<<>>>>, logged |-> TRUE,
              engine |-> EngineCall(ccmp_key, nonce, a.aad, Len(payload))]
        ELSE [kind |-> "ok", value |-> <<CCMEncrypt(ccmp_key, nonce, a.aad, payload)>>,
              logged |-> FALSE,
              engine |-> EngineCall(ccmp_key, nonce, a.aad, Len(payload))]

(***************************************************************************)
(* Inputs of the crypto pipeline.                                          *)
(***************************************************************************)
CcmpKeys == {[i \in 1..16 |-> 17], [i \in 1..16 |-> i]}

CryptoMacs == {<<1, 2, 3, 4, 5, 6>>, <<64, 210, 26, 0, 0, 1>>}

CryptoSequenceNumbers == {255, 256}

\* neither bit, to-DS, from-DS, both, to-DS with a masked bit
CryptoFrameControls == {0, 1, 2, 3, 9}

LongPayload == Zeros(CCMMaxMessageLength(13) + 1)

CryptoPayloads == SeqsUpTo(PayloadBytes, MaxCipherLen) \cup {LongPayload}

\* Payloads that arrive from elsewhere: every length from 0 to beyond the tag.
ForeignPayloads ==
    {[i \in 1..n |-> b] : n \in 0..(CCMTagSize + MaxCipherLen), b \in GarbageBytes}

FCBitPositions == {0, 1, 2, 3, 5, 8, 12, 15}

RECURSIVE SumBits(_)
SumBits(S) == IF S = {} THEN 0 ELSE LET b == CHOOSE x \in S : TRUE IN 2 ^ b + SumBits(S \ {b})

FrameControls == {SumBits(S) : S \in SUBSET FCBitPositions}

(***************************************************************************)
(* The crypto pipeline's operations: one frame's life, as for the codec.   *)
(***************************************************************************)
DoGenerateCCMPAAD ==
    Idle /\ \E sender \in MacAddresses, receiver \in MacAddresses, bssid \in MacAddresses,
       frame_control \in FrameControls :
        \E a \in {GenerateCCMPAAD(sender, receiver, bssid, frame_control)} :
            /\ sent' = [fn |-> "GenerateCCMPAAD", outcome |-> a.kind, sender |-> sender,
                        receiver |-> receiver, bssid |-> bssid,
                        frame_control |-> frame_control]
            /\ wire' = a.aad
            /\ recv' = NoResult
            /\ UNCHANGED engine

DoEncryptDataFrame ==
    Idle /\ \E payload \in CryptoPayloads, ccmp_key \in CcmpKeys, sender \in CryptoMacs,
       receiver \in CryptoMacs, bssid \in CryptoMacs,
       sequence_number \in CryptoSequenceNumbers, frame_control \in CryptoFrameControls :
        \E r \in {EncryptDataFrame(payload, ccmp_key, sender, receiver, bssid,
                                   sequence_number, frame_control)} :
            /\ sent' = [fn |-> "EncryptDataFrame", outcome |-> r.kind, payload |-> payload,
                        ccmp_key |-> ccmp_key, sender |-> sender, receiver |-> receiver,
                        bssid |-> bssid, sequence_number |-> sequence_number,
                        frame_control |-> frame_control, returned |-> r.value,
                        logged |-> r.logged]
            /\ wire' = IF r.kind = "abort" THEN <<>> ELSE r.value[1]
            /\ recv' = NoResult
            /\ engine' = r.engine

\* An encrypted payload that this codec did not produce arrives.
Receive ==
    Idle /\ \E payload \in ForeignPayloads :
        /\ sent' = [fn |-> "Receive", outcome |-> "ok"]
        /\ wire' = payload
        /\ recv' = NoResult
        /\ UNCHANGED engine

DoDecryptDataFrame ==
    /\ recv = NoResult
    /\ \/ sent.fn = "Receive"
       \/ sent.fn = "EncryptDataFrame" /\ sent.outcome = "ok"
    /\ \E ccmp_key \in CcmpKeys, sender \in CryptoMacs, receiver \in CryptoMacs,
       bssid \in CryptoMacs, sequence_number \in CryptoSequenceNumbers,
       frame_control \in CryptoFrameControls :
        \E r \in {DecryptDataFrame(wire, ccmp_key, sender, receiver, bssid, sequence_number,
                                   frame_control)} :
            /\ recv' = [fn |-> "DecryptDataFrame", outcome |-> r.kind, value |-> r.value,
                        logged |-> r.logged, ccmp_key |-> ccmp_key, sender |-> sender,
                        receiver |-> receiver, bssid |-> bssid,
                        sequence_number |-> sequence_number,
                        frame_control |-> frame_control]
            /\ engine' = r.engine
            /\ UNCHANGED <<sent, wire>>

NextCrypto ==
    \/ DoGenerateCCMPAAD
    \/ DoEncryptDataFrame
    \/ Receive
    \/ DoDecryptDataFrame

SpecCrypto == Init /\ [][NextCrypto]_vars

(***************************************************************************)
(* Properties of the frame codec (checked under Spec).                     *)
(***************************************************************************)
FitsSizeField(data) == Len(data) + SecureDataHeaderSize <= U16Max

\* C1: parsing the frame GenerateDataPayload built for a payload that fits the
\* 16-bit size field gives protocol_size = payload length + header size,
\* securedata_size = protocol_size - 4, is_management = 0 and the channel,
\* sequence number and node ids passed in; the frame is the LLC header, the
\* SecureData header and then the payload bytes unchanged.
C1_HeaderRoundTrip ==
    (recv.fn = "ParseSecureDataHeader" /\ sent.fn = "GenerateDataPayload"
        /\ FitsSizeField(sent.data))
    => /\ recv.outcome = "ok"
       /\ LET h == recv.value[1]
          IN  /\ h.protocol_size = Len(sent.data) + SecureDataHeaderSize
              /\ h.securedata_size = h.protocol_size - 4
              /\ h.is_management = 0
              /\ h.data_channel = sent.channel
              /\ h.sequence_number = sent.sequence_number
              /\ h.dest_node_id = sent.dest_node
              /\ h.src_node_id = sent.src_node
       /\ Len(wire) = LLCHeaderSize + SecureDataHeaderSize + Len(sent.data)
       /\ SubSeq(wire, 1, LLCHeaderSize) = <<170, 170, 3, 0, 0, 0, 135, 109>>
       /\ SubSeq(wire, LLCHeaderSize + 1, LLCHeaderSize + SecureDataHeaderSize)
             = <<(Len(sent.data) + 12) \div 256, (Len(sent.data) + 12) % 256,
                 (Len(sent.data) + 8) \div 256, (Len(sent.data) + 8) % 256,
                 0, sent.channel,
                 sent.sequence_number \div 256, sent.sequence_number % 256,
                 sent.dest_node \div 256, sent.dest_node % 256,
                 sent.src_node \div 256, sent.src_node % 256>>
       /\ SubSeq(wire, LLCHeaderSize + SecureDataHeaderSize + 1, Len(wire)) = sent.data

\* The largest payload that fits, with a sequence number whose two bytes differ
\* from each other and two different node ids, has been built and parsed.
C1_Witness ==
    /\ recv.fn = "ParseSecureDataHeader"
    /\ recv.outcome = "ok"
    /\ sent.fn = "GenerateDataPayload"
    /\ Len(sent.data) = U16Max - SecureDataHeaderSize
    /\ sent.sequence_number = 256
    /\ sent.dest_node # sent.src_node

\* C7: a payload whose size does not fit the 16-bit size field is rejected
\* with InvalidArgument and no frame is produced.
C7_OversizedRejected ==
    (sent.fn = "GenerateDataPayload" /\ ~FitsSizeField(sent.data))
    => (sent.outcome = "InvalidArgument" /\ wire = <<>>)

ParserNeeds(fn) ==
    CASE fn = "ParseSecureDataHeader" -> LLCHeaderSize + SecureDataHeaderSize
      [] fn = "GetFrameEtherType" -> LLCHeaderSize
      [] fn = "GetEAPoLFrameType" -> LLCHeaderSize + 2
      [] fn = "DeserializeNodeInfoFromFrame" -> LLCHeaderSize + EAPoLStartPacketSize
      [] fn = "ParseEAPoLLogoffFrame" -> LLCHeaderSize + EAPoLLogoffPacketSize

ParserNames ==
    {"ParseSecureDataHeader", "GetFrameEtherType", "GetEAPoLFrameType",
     "DeserializeNodeInfoFromFrame", "ParseEAPoLLogoffFrame"}

\* C8: every parser, given a frame shorter than the LLC header plus the
\* structure it reads, fails with TruncatedFrame and returns nothing read
\* from beyond the end of the frame.
C8_TruncatedRejected ==
    (recv.fn \in ParserNames /\ Len(wire) < ParserNeeds(recv.fn))
    => (recv.outcome = "TruncatedFrame" /\ recv.value = NoValue)

\* C10: the Logoff frame carries assigned_node_id, connected_nodes =
\* totalNodes, max_nodes = maxNodes and the first maxNodes entries of the
\* list in order, every index used lying inside the list and inside the
\* packet's array; ParseEAPoLLogoffFrame recovers the same fields.
C10_LogoffNodeArray ==
    /\ sent.fn = "GenerateEAPoLLogoffFrame"
       => /\ sent.outcome = "ok"
          /\ LET p == DeserializeEAPoLLogoffPacket(
                          SubSeq(wire, LLCHeaderSize + 1, Len(wire)))
             IN  /\ p.assigned_node_id = sent.network_node_id
                 /\ p.connected_nodes = sent.total_nodes
                 /\ p.max_nodes = sent.max_nodes
                 /\ \A i \in 1..sent.max_nodes : p.nodes[i] = sent.nodes[i]
    /\ (sent.fn = "GenerateEAPoLLogoffFrame" /\ recv.fn = "ParseEAPoLLogoffFrame")
       => /\ recv.outcome = "ok"
          /\ recv.value[1].assigned_node_id = sent.network_node_id
          /\ recv.value[1].connected_nodes = sent.total_nodes
          /\ recv.value[1].max_nodes = sent.max_nodes
          /\ \A i \in 1..sent.max_nodes : recv.value[1].nodes[i] = sent.nodes[i]

(***************************************************************************)
(* Properties of the crypto pipeline (checked under SpecCrypto).           *)
(***************************************************************************)
ToDS(frame_control) == frame_control % 2 = 1

FromDS(frame_control) == (frame_control \div 2) % 2 = 1

ExactlyOneDS(frame_control) == ToDS(frame_control) # FromDS(frame_control)

SameCall ==
    /\ recv.ccmp_key = sent.ccmp_key
    /\ recv.sender = sent.sender
    /\ recv.receiver = sent.receiver
    /\ recv.bssid = sent.bssid
    /\ recv.sequence_number = sent.sequence_number
    /\ recv.frame_control = sent.frame_control

RoundTrip ==
    /\ sent.outcome = "ok"
    /\ Len(wire) = Len(sent.payload) + 8
    /\ (recv.fn = "DecryptDataFrame" /\ SameCall)
       => (recv.outcome = "ok" /\ recv.value = <<sent.payload>>)

\* C2 as stated: for every payload, with exactly one addressing bit set,
\* EncryptDataFrame returns the payload's length plus 8 bytes and
\* DecryptDataFrame with the same arguments returns the payload.
C2_RoundTripEveryPayload ==
    (sent.fn = "EncryptDataFrame" /\ ExactlyOneDS(sent.frame_control)) => RoundTrip

\* C2 as amended: the same for every payload of at most 65535 bytes, the
\* longest message CCM takes with a 13-byte nonce.
C2_RoundTrip ==
    (sent.fn = "EncryptDataFrame" /\ ExactlyOneDS(sent.frame_control)
        /\ Len(sent.payload) <= 65535)
    => RoundTrip

\* A non-empty payload came back from DecryptDataFrame called as EncryptDataFrame was.
C2_Witness ==
    /\ sent.fn = "EncryptDataFrame"
    /\ recv.fn = "DecryptDataFrame"
    /\ SameCall
    /\ sent.payload # <<>>
    /\ sent.sequence_number = 256
    /\ recv.outcome = "ok"

\* The empty payload made the round trip as well.
C2_WitnessEmpty ==
    /\ sent.fn = "EncryptDataFrame"
    /\ recv.fn = "DecryptDataFrame"
    /\ SameCall
    /\ sent.payload = <<>>
    /\ recv.outcome = "ok"

\* C3: with to-DS set and from-DS clear the AAD holds A1 = bssid, A2 = sender,
\* A3 = receiver; with from-DS set and to-DS clear, A1 = receiver, A2 = bssid,
\* A3 = sender.
C3_AADAddresses ==
    (sent.fn = "GenerateCCMPAAD" /\ ExactlyOneDS(sent.frame_control))
    => /\ sent.outcome = "ok"
       /\ Len(wire) = 22
       /\ ToDS(sent.frame_control)
          => /\ SubSeq(wire, 3, 8) = sent.bssid
             /\ SubSeq(wire, 9, 14) = sent.sender
             /\ SubSeq(wire, 15, 20) = sent.receiver
       /\ FromDS(sent.frame_control)
          => /\ SubSeq(wire, 3, 8) = sent.receiver
             /\ SubSeq(wire, 9, 14) = sent.bssid
             /\ SubSeq(wire, 15, 20) = sent.sender

\* An AAD was built in from-DS mode for three different, non-zero addresses.
C3_Witness ==
    /\ sent.fn = "GenerateCCMPAAD"
    /\ sent.outcome = "ok"
    /\ FromDS(sent.frame_control)
    /\ Cardinality({sent.sender, sent.receiver, sent.bssid, ZeroMac}) = 4

\* bits 0-2, 6-11 and 15: the bits of 0x8FC7
AuthenticatedFCBits == {0, 1, 2, 6, 7, 8, 9, 10, 11, 15}

Bit(x, i) == (x \div (2 ^ i)) % 2

SameAuthenticatedBits(x, y) == \A i \in AuthenticatedFCBits : Bit(x, i) = Bit(y, i)

\* C4: the AAD is 22 bytes; its frame-control field is frameControl AND 0x8FC7
\* (bits of the mask kept, all others zero), its sequence-control field is
\* zero, and a frameControl that differs only outside the mask gives the same
\* AAD for the same addresses.
C4_AADMasking ==
    (sent.fn = "GenerateCCMPAAD" /\ sent.outcome = "ok")
    => /\ Len(wire) = 22
       /\ \A i \in 0..15 :
             Bit(wire[1] * 256 + wire[2], i)
                = IF i \in AuthenticatedFCBits THEN Bit(sent.frame_control, i) ELSE 0
       /\ wire[21] = 0 /\ wire[22] = 0
       /\ \A fc \in FrameControls :
             SameAuthenticatedBits(fc, sent.frame_control)
             => GenerateCCMPAAD(sent.sender, sent.receiver, sent.bssid, fc).aad = wire

\* An AAD was built from a frame control with bits set inside and outside the mask.
C4_Witness ==
    /\ sent.fn = "GenerateCCMPAAD"
    /\ sent.outcome = "ok"
    /\ Bit(sent.frame_control, 3) = 1
    /\ Bit(sent.frame_control, 12) = 1
    /\ Bit(sent.frame_control, 15) = 1
    /\ Bit(sent.frame_control, 8) = 1

\* C5: with both addressing bits set, or neither, GenerateCCMPAAD ends in the
\* fatal assertion and returns no AAD; EncryptDataFrame and DecryptDataFrame
\* then never reach the CCM engine and return nothing, not even an empty result.
C5_AddressingModeFatal ==
    /\ (sent.fn = "GenerateCCMPAAD" /\ ~ExactlyOneDS(sent.frame_control))
       => (sent.outcome = "abort" /\ wire = <<>>)
    /\ (sent.fn = "EncryptDataFrame" /\ ~ExactlyOneDS(sent.frame_control))
       => (sent.outcome = "abort" /\ sent.returned = NoValue /\ ~sent.logged
            /\ ~engine.called)
    /\ (recv.fn = "DecryptDataFrame" /\ ~ExactlyOneDS(recv.frame_control))
       => (recv.outcome = "abort" /\ recv.value = NoValue /\ ~recv.logged
            /\ ~engine.called)

\* DecryptDataFrame was called with both bits set on a frame that EncryptDataFrame built.
C5_Witness ==
    /\ sent.fn = "EncryptDataFrame"
    /\ sent.outcome = "ok"
    /\ recv.fn = "DecryptDataFrame"
    /\ ToDS(recv.frame_control) /\ FromDS(recv.frame_control)

TagVerifies ==
    /\ Len(wire) >= 8
    /\ engine.called
    /\ CCMVerifies(engine.key, engine.nonce, engine.aad, SubSeq(wire, 1, Len(wire) - 8),
                   SubSeq(wire, Len(wire) - 7, Len(wire)))

\* C6: with a valid addressing mode, DecryptDataFrame never aborts and lets no
\* engine error escape; a payload shorter than the tag, or one whose tag does
\* not verify, is logged and gives an empty result; and the engine is never
\* handed the length "payload length - 8" when that difference is negative.
C6_DecryptFailureAbsorbed ==
    (recv.fn = "DecryptDataFrame" /\ ExactlyOneDS(recv.frame_control))
    => /\ recv.outcome \in {"ok", "failed"}
       /\ ~TagVerifies => (recv.outcome = "failed" /\ recv.logged /\ recv.value = <<<<>>>>)
       /\ Len(wire) < 8 => (~engine.called \/ engine.message_length >= 0)

\* C9: the nonce handed to the engine by EncryptDataFrame and by
\* DecryptDataFrame is 13 bytes: 0, the sender address, four zero bytes, the
\* high byte and then the low byte of the sequence number; another sender or
\* sequence number gives another nonce, in either function.
NonceLayout(nonce, sender, sequence_number) ==
    /\ Len(nonce) = 13
    /\ nonce[1] = 0
    /\ SubSeq(nonce, 2, 7) = sender
    /\ SubSeq(nonce, 8, 11) = <<0, 0, 0, 0>>
    /\ nonce[12] = sequence_number \div 256
    /\ nonce[13] = sequence_number % 256
    /\ \A s \in CryptoMacs, q \in CryptoSequenceNumbers :
          /\ (EncryptNonce(s, q) = nonce) <=> (s = sender /\ q = sequence_number)
          /\ (DecryptNonce(s, q) = nonce) <=> (s = sender /\ q = sequence_number)

C9_NonceLayout ==
    /\ (sent.fn = "EncryptDataFrame" /\ recv.fn = "none" /\ engine.called)
       => NonceLayout(engine.nonce, sent.sender, sent.sequence_number)
    /\ (recv.fn = "DecryptDataFrame" /\ engine.called)
       => NonceLayout(engine.nonce, recv.sender, recv.sequence_number)

\* DecryptDataFrame built a nonce for a sender that is neither the receiver nor
\* the bssid, after EncryptDataFrame had built one for another sequence number.
C9_Witness ==
    /\ sent.fn = "EncryptDataFrame"
    /\ recv.fn = "DecryptDataFrame"
    /\ engine.called
    /\ recv.sequence_number = 256
    /\ sent.sequence_number = 255
    /\ recv.sender # recv.receiver
    /\ recv.sender # recv.bssid

(***************************************************************************)
(* What holds of the operations above on the inputs that stay in range.    *)
(***************************************************************************)
LogoffInBoundsRoundTrip ==
    (sent.fn = "GenerateEAPoLLogoffFrame"
        /\ LogoffIndicesInBounds(sent.nodes, sent.max_nodes))
    => /\ sent.outcome = "ok"
       /\ Len(wire) = LLCHeaderSize + EAPoLLogoffPacketSize
       /\ recv.fn = "ParseEAPoLLogoffFrame"
          => /\ recv.outcome = "ok"
             /\ recv.value[1].magic = EAPoLLogoffMagic
             /\ recv.value[1].assigned_node_id = sent.network_node_id
             /\ recv.value[1].connected_nodes = sent.total_nodes
             /\ recv.value[1].max_nodes = sent.max_nodes
             /\ \A i \in 1..UDSMaxNodes :
                   recv.value[1].nodes[i]
                      = IF i <= sent.max_nodes THEN sent.nodes[i] ELSE ZeroEAPoLNodeInfo

ParsersReadWholeFrames ==
    (recv.fn \in ParserNames /\ Len(wire) >= ParserNeeds(recv.fn)) => recv.outcome = "ok"

DecryptNeverEscapes ==
    (recv.fn = "DecryptDataFrame" /\ ExactlyOneDS(recv.frame_control))
    => /\ recv.outcome \in {"ok", "failed"}
       /\ ~TagVerifies => (recv.outcome = "failed" /\ recv.logged /\ recv.value = <<<<>>>>)

====
